---------------------------- MODULE Spec2Model ----------------------------
(***************************************************************************)
(* The streaming upload pipeline of the AudioRecorder component            *)
(* (src/src/components/AudioRecorder.jsx): the start / pause / resume /    *)
(* stop handlers, the MediaRecorder event handlers ondataavailable and     *)
(* onstop, the retry helper, and the block blob they talk to.              *)
(*                                                                         *)
(* One startRecording call is a "session": it owns a MediaRecorder, a      *)
(* blob name and a BlockBlobClient (closure locals).  The refs             *)
(* mediaRecorderRef, blockListRef and blockBlobClientRef are shared by     *)
(* all sessions of the component.                                          *)
(***************************************************************************)
EXTENDS Integers, Sequences, FiniteSets, TLC

(***************************************************************************)
(* Bounds of the model.                                                    *)
(***************************************************************************)
MaxSessions ==
  2
MaxChunks ==
  3
MaxFailures ==
  5
MaxClock ==
  1
MaxProbeRetries ==
  4

(***************************************************************************)
(* Program constants.                                                      *)
(***************************************************************************)
DefaultRetries ==
  3
DefaultDelay ==
  1000

Sessions ==
  1 .. MaxSessions
Times ==
  0 .. MaxClock
\* event.data.size of a delivered chunk: empty, or some bytes
ChunkSizes ==
  {0, 500}

(***************************************************************************)
(* btoa(`block-${Date.now()}`)                                             *)
(* Strings are sequences of character codes; the result of btoa is the     *)
(* sequence of base64 alphabet indices (0..63), 64 standing for '='.       *)
(***************************************************************************)
RECURSIVE Digits(_)
Digits(n) ==
  IF n < 10 THEN <<48 + n>> ELSE Digits(n \div 10) \o <<48 + (n % 10)>>

\* `block-${t}`
BlockString(t) ==
  <<98, 108, 111, 99, 107, 45>> \o Digits(t)

RECURSIVE Btoa(_)
Btoa(b) ==
  IF Len(b) = 0 THEN <<>>
  ELSE IF Len(b) = 1 THEN
    <<b[1] \div 4, (b[1] % 4) * 16, 64, 64>>
  ELSE IF Len(b) = 2 THEN
    <<b[1] \div 4, (b[1] % 4) * 16 + (b[2] \div 16), (b[2] % 16) * 4, 64>>
  ELSE
    <<b[1] \div 4, (b[1] % 4) * 16 + (b[2] \div 16),
      (b[2] % 16) * 4 + (b[3] \div 64), b[3] % 64>>
    \o Btoa(SubSeq(b, 4, Len(b)))

\* const blockId = btoa(`block-${Date.now()}`), Date.now() having returned t
BlockId(t) ==
  Btoa(BlockString(t))

(***************************************************************************)
(* retry(operation, retries = 3, delay = 1000)                             *)
(* One execution of retry is a record:                                     *)
(*   attempt  the loop variable                                            *)
(*   phase    "call"     operation() invoked, awaiting its promise         *)
(*            "wait"     awaiting the setTimeout(resolve, delay) promise   *)
(*            "returned" retry's promise resolved with result              *)
(*            "thrown"   retry's promise rejected with error               *)
(*   calls    number of invocations of operation so far                    *)
(*   waits    the delays awaited so far (ms)                               *)
(*   result   what retry resolved with ("undefined" when the loop body     *)
(*            never ran)                                                   *)
(*   error    the invocation (1, 2, ...) whose failure retry threw         *)
(***************************************************************************)
NoRetry ==
  [retries |-> 0, delay |-> 0, attempt |-> 0, phase |-> "idle",
   calls |-> 0, waits |-> <<>>, result |-> "none", error |-> 0]

\* for (let attempt = 1; attempt <= retries; ...) { try { return await operation();
RetryStart(retries, delay) ==
  IF 1 <= retries
  THEN [retries |-> retries, delay |-> delay, attempt |-> 1, phase |-> "call",
        calls |-> 1, waits |-> <<>>, result |-> "none", error |-> 0]
  ELSE [retries |-> retries, delay |-> delay, attempt |-> 1, phase |-> "returned",
        calls |-> 0, waits |-> <<>>, result |-> "undefined", error |-> 0]

\* return await operation();  -- the operation's promise resolved with v
RetryOpSucceeds(r, v) ==
  [r EXCEPT !.phase = "returned", !.result = v]

\* Mutants of RetryOpFails: giving up one attempt early, giving up one
\* attempt late, and resolving instead of throwing after the last failure.
RetryOpFailsOneAttemptShort(r) ==
  IF r.attempt + 1 < r.retries
  THEN [r EXCEPT !.phase = "wait", !.waits = Append(@, r.delay)]
  ELSE [r EXCEPT !.phase = "thrown", !.error = r.calls]

RetryOpFailsOneAttemptMore(r) ==
  IF r.attempt <= r.retries
  THEN [r EXCEPT !.phase = "wait", !.waits = Append(@, r.delay)]
  ELSE [r EXCEPT !.phase = "thrown", !.error = r.calls]

RetryOpFailsSwallowsLast(r) ==
  IF r.attempt < r.retries
  THEN [r EXCEPT !.phase = "wait", !.waits = Append(@, r.delay)]
  ELSE [r EXCEPT !.phase = "returned", !.result = "undefined"]

\* catch (error) { if (attempt < retries) { ...await delay } else { throw error } }
\* -- the promise of invocation number r.calls rejected
RetryOpFails(r) ==
  IF r.attempt < r.retries
  THEN [r EXCEPT !.phase = "wait", !.waits = Append(@, r.delay)]
  ELSE [r EXCEPT !.phase = "thrown", !.error = r.calls]

\* the setTimeout promise resolved: attempt++, attempt <= retries, operation()
RetryDelayElapsed(r) ==
  [r EXCEPT !.attempt = @ + 1, !.phase = "call", !.calls = @ + 1]

(***************************************************************************)
(* State.                                                                  *)
(***************************************************************************)
VARIABLES
  now,                 \* the last value returned by Date.now()
  isRecording,         \* useState(false)
  isPaused,            \* useState(false)
  recordings,          \* useState([]): sequence of [name, url]
  mediaRecorderRef,    \* useRef(null): 0, or the session whose recorder it holds
  blockListRef,        \* useRef([]): sequence of block ids
  blockBlobClientRef,  \* useRef(null): 0, or the session whose client it holds
  recorder,            \* per session, startRecording's progress and MediaRecorder.state
  blobName,            \* per session, the closure's blobName (NoName before it is set)
  chunks,              \* the dataavailable events delivered so far: [sess, size, t]
  stages,              \* per non-empty chunk, its ondataavailable continuation
  finalize,            \* per session, its onstop handler's progress
  store,               \* the container: per blob name, staged and committed blocks
  failures,            \* failed network calls so far
  budget,              \* what the environment may do in this run (see Budgets)
  resetAt,             \* Len(chunks) when blockListRef was last reset (history)
  registeredBy,        \* per entry of recordings, the session whose onstop added it (history)
  probe                \* one execution of retry on its own (SpecRetry): the operation's
                       \* behaviour and the execution's progress

vars ==
  <<now, isRecording, isPaused, recordings, mediaRecorderRef, blockListRef,
    blockBlobClientRef, recorder, blobName, chunks, stages, finalize, store,
    failures, budget, resetAt, registeredBy, probe>>

\* const mimeTypes = [...], in the order getMediaRecorderConfig tries them
MimeTypes ==
  <<[type |-> "audio/webm; codecs=opus", extension |-> "webm"],
    [type |-> "audio/mp4; codecs=mp4a.40.2", extension |-> "mp4"]>>

Extensions ==
  {MimeTypes[i].extension : i \in DOMAIN MimeTypes}

\* The types for which MediaRecorder.isTypeSupported answers true in a
\* browser that supports them all.
SupportedTypes ==
  {"audio/webm; codecs=opus", "audio/mp4; codecs=mp4a.40.2"}

\* getMediaRecorderConfig: the extension of the first supported type
\* ("none": throw new Error("No supported MIME types found ..."))
NegotiatedExtension(supported) ==
  IF \E i \in DOMAIN MimeTypes : MimeTypes[i].type \in supported
  THEN MimeTypes[CHOOSE i \in DOMAIN MimeTypes :
                   /\ MimeTypes[i].type \in supported
                   /\ \A j \in DOMAIN MimeTypes :
                        MimeTypes[j].type \in supported => i <= j].extension
  ELSE "none"
Names ==
  [t : Times, ext : Extensions]
NoName ==
  [t |-> -1, ext |-> "none"]

\* blockBlobClient.url
Url(name) ==
  [container |-> "audio-recordings", blob |-> name]

EmptyBlob ==
  [uncommitted |-> {}, committed |-> <<>>, exists |-> FALSE]

(***************************************************************************)
(* The runs explored.  Every step of the environment multiplies the number *)
(* of interleavings, so the model explores three families of runs rather   *)
(* than their product: one session with many chunks, one session with few  *)
(* chunks and many failed network calls, and several sessions with one     *)
(* chunk and many failed calls; these in a page built with                 *)
(* VITE_AZURE_BLOB_SAS_URL and a browser supporting every type.  Three     *)
(* more families have a browser without webm, a browser supporting no      *)
(* type, and a page built without VITE_AZURE_BLOB_SAS_URL.                 *)
(***************************************************************************)
Budgets ==
  { [sessions |-> 1, chunks |-> MaxChunks, failures |-> 1,
     sasUrl |-> TRUE, supported |-> SupportedTypes],
    [sessions |-> 1, chunks |-> MaxChunks - 1, failures |-> MaxFailures,
     sasUrl |-> TRUE, supported |-> SupportedTypes],
    [sessions |-> MaxSessions, chunks |-> MaxChunks - 2, failures |-> MaxFailures,
     sasUrl |-> TRUE, supported |-> SupportedTypes],
    [sessions |-> 1, chunks |-> MaxChunks - 2, failures |-> 1,
     sasUrl |-> TRUE, supported |-> {"audio/mp4; codecs=mp4a.40.2"}],
    [sessions |-> MaxSessions, chunks |-> MaxChunks - 2, failures |-> 1,
     sasUrl |-> TRUE, supported |-> {}],
    [sessions |-> MaxSessions, chunks |-> MaxChunks - 2, failures |-> 1,
     sasUrl |-> FALSE, supported |-> SupportedTypes] }

NoProbe ==
  [always |-> FALSE, fails |-> 0, rx |-> NoRetry]

NoFinalize ==
  [ran |-> FALSE, listAtStop |-> <<>>, rx |-> NoRetry, calls |-> <<>>,
   outcome |-> "none"]

Init ==
  /\ now = 0
  /\ isRecording = FALSE
  /\ isPaused = FALSE
  /\ recordings = <<>>
  /\ mediaRecorderRef = 0
  /\ blockListRef = <<>>
  /\ blockBlobClientRef = 0
  /\ recorder = [s \in Sessions |-> "unborn"]
  /\ blobName = [s \in Sessions |-> NoName]
  /\ chunks = <<>>
  /\ stages = <<>>
  /\ finalize = [s \in Sessions |-> NoFinalize]
  /\ store = [n \in Names |-> EmptyBlob]
  /\ failures = 0
  /\ budget \in Budgets
  /\ resetAt = 0
  /\ registeredBy = <<>>
  /\ probe = NoProbe


(***************************************************************************)
(* The block blob service, as the component uses it.                       *)
(*   stageBlock(blockId, chunk, size)  uploads an uncommitted block; a     *)
(*       block staged again under the same id replaces the earlier one.    *)
(*   commitBlockList(ids)  fails if some id names no block of the blob;    *)
(*       otherwise the blob's content becomes the blocks in the order of   *)
(*       ids (the latest block of each id), and the uncommitted blocks     *)
(*       that were not listed are dropped.                                 *)
(***************************************************************************)
BlockIdsOf(blob) ==
  {b.id : b \in blob.uncommitted} \cup {blob.committed[i].id : i \in DOMAIN blob.committed}

LatestBlock(blob, id) ==
  IF \E b \in blob.uncommitted : b.id = id
  THEN CHOOSE b \in blob.uncommitted : b.id = id
  ELSE blob.committed[CHOOSE i \in DOMAIN blob.committed : blob.committed[i].id = id]

\* blockBlobClient.stageBlock(blockId, chunk, chunk.size) has succeeded
StageBlock(blob, id, chunk) ==
  [blob EXCEPT !.uncommitted =
     {b \in @ : b.id # id} \cup {[id |-> id, chunk |-> chunk]}]

CommitAccepted(blob, ids) ==
  \A i \in DOMAIN ids : ids[i] \in BlockIdsOf(blob)

\* blockBlobClientRef.current.commitBlockList(ids) has succeeded
CommitBlockList(blob, ids) ==
  [uncommitted |-> {},
   committed |-> [i \in DOMAIN ids |-> LatestBlock(blob, ids[i])],
   exists |-> TRUE]

(***************************************************************************)
(* Fragments of the handlers.                                              *)
(***************************************************************************)
\* Mutant of HasData: no test of the chunk's size.
HasDataOrEmpty(size) ==
  size >= 0

\* if (event.data.size > 0)
HasData(size) ==
  size > 0

\* Mutant of PushBlockId: unshift instead of push.
PushBlockIdAtFront(list, id) ==
  <<id>> \o list

\* blockListRef.current.push(blockId)
PushBlockId(list, id) ==
  Append(list, id)

\* Mutant of NoBlocks: the empty list is not detected.
NoBlocksNeverSeen(list) ==
  FALSE

\* if (blockListRef.current.length === 0) { console.warn(...); return; }
NoBlocks(list) ==
  Len(list) = 0

\* Mutant of CanPause: isRecording is not tested.
CanPauseWithoutIsRecording ==
  mediaRecorderRef # 0 /\ ~isPaused

\* if (mediaRecorderRef.current && isRecording && !isPaused)
CanPause ==
  mediaRecorderRef # 0 /\ isRecording /\ ~isPaused

\* if (mediaRecorderRef.current && isRecording && isPaused)
CanResume ==
  mediaRecorderRef # 0 /\ isRecording /\ isPaused

\* if (mediaRecorderRef.current)
CanStop ==
  mediaRecorderRef # 0

\* Mutant of RecordingsAfterCommit: the entry is added whether or not retry
\* returned.
RecordingsAfterAnyAttempt(prev, rx, entry) ==
  Append(prev, entry)

\* await retry(...commitBlockList...); setRecordings((prev) => [...prev, entry]);
\* } catch (error) { console.error(...) }
RecordingsAfterCommit(prev, rx, entry) ==
  IF rx.phase = "returned" THEN Append(prev, entry) ELSE prev

\* mediaRecorder.ondataavailable, up to its first await: the block list after
\* a chunk of the given size was handled at clock reading t
ListAfterChunk(list, size, t) ==
  IF HasData(size) THEN PushBlockId(list, BlockId(t)) ELSE list

\* Mutant of StagesAfterChunk: once an upload has failed for good, later
\* chunks are not uploaded.
StagesAfterChunkUnlessFailed(stgs, s, size, t, k) ==
  IF HasData(size) /\ \A i \in DOMAIN stgs : stgs[i].rx.phase # "thrown"
  THEN Append(stgs, [sess |-> s, blockId |-> BlockId(t), chunk |-> k,
                     rx |-> RetryStart(DefaultRetries, DefaultDelay)])
  ELSE stgs

\* Mutant of StagesAfterChunk: the uploads draw on one attempt budget, so an
\* upload begun after another needed a second attempt has one attempt less.
StagesAfterChunkSharedBudget(stgs, s, size, t, k) ==
  IF HasData(size)
  THEN Append(stgs, [sess |-> s, blockId |-> BlockId(t), chunk |-> k,
                     rx |-> RetryStart(IF \E i \in DOMAIN stgs : stgs[i].rx.calls > 1
                                       THEN DefaultRetries - 1 ELSE DefaultRetries,
                                       DefaultDelay)])
  ELSE stgs

\* mediaRecorder.ondataavailable of session s: the uploads in progress after
\* chunk number k, of the given size, was handled at clock reading t
StagesAfterChunk(stgs, s, size, t, k) ==
  IF HasData(size)
  THEN Append(stgs, [sess |-> s, blockId |-> BlockId(t), chunk |-> k,
                     rx |-> RetryStart(DefaultRetries, DefaultDelay)])
  ELSE stgs

\* mediaRecorder.onstop of session s, up to its first await
FinalizeAtStop(list, client) ==
  IF NoBlocks(list)
  THEN [ran |-> TRUE, listAtStop |-> list, rx |-> NoRetry, calls |-> <<>>,
        outcome |-> "skipped"]
  ELSE [ran |-> TRUE, listAtStop |-> list,
        rx |-> RetryStart(DefaultRetries, DefaultDelay),
        calls |-> <<[client |-> client, list |-> list]>>,
        outcome |-> "running"]

\* The values Date.now() may return next: the clock never goes back.
ClockReadings ==
  {t \in Times : now <= t /\ t <= now + 1}

(***************************************************************************)
(* startRecording                                                          *)
(***************************************************************************)
\* onClick={startRecording}: the button is rendered only when !isRecording.
\* The call runs up to await navigator.mediaDevices.getUserMedia(...).
StartRecording(s) ==
  /\ ~isRecording
  /\ recorder[s] = "unborn"
  /\ \A r \in Sessions : r < s => recorder[r] # "unborn"
  /\ s <= budget.sessions
  /\ recorder' = [recorder EXCEPT ![s] = "requested"]
  /\ UNCHANGED <<now, isRecording, isPaused, recordings, mediaRecorderRef,
                 blockListRef, blockBlobClientRef, blobName, chunks, stages,
                 finalize, store, failures, budget, resetAt, registeredBy, probe>>

\* Mutant of BlobServiceClientThrows: the constructor accepts anything.
BlobServiceClientNeverThrows(sasUrl) ==
  FALSE

\* new BlobServiceClient(import.meta.env.VITE_AZURE_BLOB_SAS_URL): the
\* constructor parses its argument as a URL and throws when the variable is
\* not defined (the test of azureBlobUrl before it only logs).
BlobServiceClientThrows(sasUrl) ==
  ~sasUrl

\* getUserMedia resolved: the rest of startRecording runs without suspending.
StartGranted(s) ==
  /\ recorder[s] = "requested"
  /\ NegotiatedExtension(budget.supported) # "none"
  /\ ~BlobServiceClientThrows(budget.sasUrl)
  /\ \E t \in ClockReadings :
       /\ now' = t
       /\ blobName' = [blobName EXCEPT ![s] =
                         [t |-> t, ext |-> NegotiatedExtension(budget.supported)]]
  /\ mediaRecorderRef' = s
  /\ blockBlobClientRef' = s
  /\ blockListRef' = <<>>
  /\ resetAt' = Len(chunks)
  /\ recorder' = [recorder EXCEPT ![s] = "recording"]
  /\ isRecording' = TRUE
  /\ isPaused' = FALSE
  /\ UNCHANGED <<recordings, chunks, stages, finalize, store, failures, budget,
                 registeredBy, probe>>

\* getUserMedia rejected: catch (error) { console.error(...) }
StartDenied(s) ==
  /\ recorder[s] = "requested"
  /\ recorder' = [recorder EXCEPT ![s] = "failed"]
  /\ UNCHANGED <<now, isRecording, isPaused, recordings, mediaRecorderRef,
                 blockListRef, blockBlobClientRef, blobName, chunks, stages,
                 finalize, store, failures, budget, resetAt, registeredBy, probe>>

\* getUserMedia resolved and getMediaRecorderConfig threw "No supported MIME
\* types found for MediaRecorder.": caught and logged by startRecording.
StartNoEncoding(s) ==
  /\ recorder[s] = "requested"
  /\ NegotiatedExtension(budget.supported) = "none"
  /\ recorder' = [recorder EXCEPT ![s] = "failed"]
  /\ UNCHANGED <<now, isRecording, isPaused, recordings, mediaRecorderRef,
                 blockListRef, blockBlobClientRef, blobName, chunks, stages,
                 finalize, store, failures, budget, resetAt, registeredBy, probe>>

\* getUserMedia resolved, the recorder was built and stored in
\* mediaRecorderRef, and new BlobServiceClient(...) threw: caught and logged
\* by startRecording.  The recorder is never started (it stays inactive).
StartNoCredential(s) ==
  /\ recorder[s] = "requested"
  /\ NegotiatedExtension(budget.supported) # "none"
  /\ BlobServiceClientThrows(budget.sasUrl)
  /\ mediaRecorderRef' = s
  /\ recorder' = [recorder EXCEPT ![s] = "failed"]
  /\ UNCHANGED <<now, isRecording, isPaused, recordings, blockListRef,
                 blockBlobClientRef, blobName, chunks, stages, finalize, store,
                 failures, budget, resetAt, registeredBy, probe>>

(***************************************************************************)
(* The MediaRecorder of a session: mediaRecorder.start(1000) delivers a    *)
(* dataavailable event per timeslice while its state is "recording";       *)
(* stop() makes it inactive and queues one task that fires a last          *)
(* dataavailable and then stop.                                            *)
(***************************************************************************)
\* mediaRecorder.ondataavailable, for a timeslice chunk
DataAvailable(s) ==
  /\ recorder[s] = "recording"
  /\ Len(chunks) < budget.chunks
  /\ \E size \in ChunkSizes, t \in ClockReadings :
       /\ HasData(size) \/ t = now
       /\ now' = t
       /\ chunks' = Append(chunks, [sess |-> s, size |-> size, t |-> t])
       /\ blockListRef' = ListAfterChunk(blockListRef, size, t)
       /\ stages' = StagesAfterChunk(stages, s, size, t, Len(chunks) + 1)
  /\ UNCHANGED <<isRecording, isPaused, recordings, mediaRecorderRef,
                 blockBlobClientRef, recorder, blobName, finalize, store,
                 failures, budget, resetAt, registeredBy, probe>>

\* Mutant of RecorderStopTask: the stop handler is held back until every
\* upload of the session has ended.
RecorderStopTaskAfterDrain(s) ==
  /\ recorder[s] = "stopping"
  /\ \A i \in DOMAIN stages :
       stages[i].sess = s => stages[i].rx.phase \in {"returned", "thrown"}
  /\ \E t \in ClockReadings :
       /\ t = now
       /\ now' = t
       /\ chunks' = Append(chunks, [sess |-> s, size |-> 0, t |-> t])
       /\ blockListRef' = blockListRef
       /\ stages' = stages
       /\ finalize' = [finalize EXCEPT ![s] =
            FinalizeAtStop(blockListRef, blockBlobClientRef)]
  /\ recorder' = [recorder EXCEPT ![s] = "inactive"]
  /\ UNCHANGED <<isRecording, isPaused, recordings, mediaRecorderRef,
                 blockBlobClientRef, blobName, store, failures, budget, resetAt,
                 registeredBy, probe>>

\* The task queued by stop(): ondataavailable for the last chunk, then onstop.
RecorderStopTask(s) ==
  /\ recorder[s] = "stopping"
  /\ \E size \in ChunkSizes, t \in ClockReadings :
       /\ HasData(size) \/ t = now
       /\ HasData(size) => Len(chunks) < budget.chunks
       /\ now' = t
       /\ chunks' = Append(chunks, [sess |-> s, size |-> size, t |-> t])
       /\ blockListRef' = ListAfterChunk(blockListRef, size, t)
       /\ stages' = StagesAfterChunk(stages, s, size, t, Len(chunks) + 1)
       /\ finalize' = [finalize EXCEPT ![s] =
            FinalizeAtStop(ListAfterChunk(blockListRef, size, t), blockBlobClientRef)]
  /\ recorder' = [recorder EXCEPT ![s] = "inactive"]
  /\ UNCHANGED <<isRecording, isPaused, recordings, mediaRecorderRef,
                 blockBlobClientRef, blobName, store, failures, budget, resetAt,
                 registeredBy, probe>>

(***************************************************************************)
(* pauseRecording, resumeRecording, stopRecording                          *)
(***************************************************************************)
\* MediaRecorder.pause() / resume() / stop() on a recorder in state st: the
\* state after, and whether the call threw (InvalidStateError when inactive;
\* stop() on an inactive recorder does nothing).  "stopping" is inactive
\* with the stop task still queued; "failed" is inactive, never started.
MediaRecorderPause(st) ==
  [state |-> IF st = "recording" THEN "paused" ELSE st,
   threw |-> st \notin {"recording", "paused"}]

MediaRecorderResume(st) ==
  [state |-> IF st = "paused" THEN "recording" ELSE st,
   threw |-> st \notin {"recording", "paused"}]

\* Mutant of MediaRecorderStop: stop() on a recorder that is already
\* inactive queues the stop task again.
MediaRecorderStopRefires(st) ==
  [state |-> "stopping", threw |-> FALSE]

MediaRecorderStop(st) ==
  [state |-> IF st \in {"recording", "paused"} THEN "stopping" ELSE st,
   threw |-> FALSE]

\* What pauseRecording does in the current state: the recorders and isPaused
\* after it, and the call it forwards to a recorder (op "none": no call).
PauseEffect ==
  IF CanPause
  THEN LET r == MediaRecorderPause(recorder[mediaRecorderRef])
       IN [recorder |-> [recorder EXCEPT ![mediaRecorderRef] = r.state],
           blockList |-> blockListRef,
           isPaused |-> IF r.threw THEN isPaused ELSE TRUE,
           forwarded |-> [op |-> "pause", to |-> mediaRecorderRef]]
  ELSE [recorder |-> recorder, blockList |-> blockListRef,
        isPaused |-> isPaused, forwarded |-> [op |-> "none", to |-> 0]]

\* What resumeRecording does in the current state.
ResumeEffect ==
  IF CanResume
  THEN LET r == MediaRecorderResume(recorder[mediaRecorderRef])
       IN [recorder |-> [recorder EXCEPT ![mediaRecorderRef] = r.state],
           blockList |-> blockListRef,
           isPaused |-> IF r.threw THEN isPaused ELSE FALSE,
           forwarded |-> [op |-> "resume", to |-> mediaRecorderRef]]
  ELSE [recorder |-> recorder, blockList |-> blockListRef,
        isPaused |-> isPaused, forwarded |-> [op |-> "none", to |-> 0]]

\* Mutant of StopEffect: stopRecording also empties the block list.
StopEffectClearingList ==
  IF CanStop
  THEN LET r == MediaRecorderStop(recorder[mediaRecorderRef])
       IN [recorder |-> [recorder EXCEPT ![mediaRecorderRef] = r.state],
           blockList |-> <<>>,
           isRecording |-> FALSE,
           isPaused |-> FALSE,
           forwarded |-> [op |-> "stop", to |-> mediaRecorderRef]]
  ELSE [recorder |-> recorder, blockList |-> blockListRef,
        isRecording |-> isRecording, isPaused |-> isPaused,
        forwarded |-> [op |-> "none", to |-> 0]]

\* What stopRecording does in the current state.
StopEffect ==
  IF CanStop
  THEN LET r == MediaRecorderStop(recorder[mediaRecorderRef])
       IN [recorder |-> [recorder EXCEPT ![mediaRecorderRef] = r.state],
           blockList |-> blockListRef,
           isRecording |-> FALSE,
           isPaused |-> FALSE,
           forwarded |-> [op |-> "stop", to |-> mediaRecorderRef]]
  ELSE [recorder |-> recorder, blockList |-> blockListRef,
        isRecording |-> isRecording, isPaused |-> isPaused,
        forwarded |-> [op |-> "none", to |-> 0]]

PauseRecording ==
  /\ recorder' = PauseEffect.recorder
  /\ blockListRef' = PauseEffect.blockList
  /\ isPaused' = PauseEffect.isPaused
  /\ UNCHANGED <<now, isRecording, recordings, mediaRecorderRef,
                 blockBlobClientRef, blobName, chunks, stages, finalize, store,
                 failures, budget, resetAt, registeredBy, probe>>

ResumeRecording ==
  /\ recorder' = ResumeEffect.recorder
  /\ blockListRef' = ResumeEffect.blockList
  /\ isPaused' = ResumeEffect.isPaused
  /\ UNCHANGED <<now, isRecording, recordings, mediaRecorderRef,
                 blockBlobClientRef, blobName, chunks, stages, finalize, store,
                 failures, budget, resetAt, registeredBy, probe>>

StopRecording ==
  /\ recorder' = StopEffect.recorder
  /\ blockListRef' = StopEffect.blockList
  /\ isRecording' = StopEffect.isRecording
  /\ isPaused' = StopEffect.isPaused
  /\ UNCHANGED <<now, recordings, mediaRecorderRef,
                 blockBlobClientRef, blobName, chunks, stages, finalize, store,
                 failures, budget, resetAt, registeredBy, probe>>

(***************************************************************************)
(* The continuation of ondataavailable: await retry(() => stageBlock(...)) *)
(***************************************************************************)
StageSucceeds(i) ==
  /\ stages[i].rx.phase = "call"
  /\ store' = [store EXCEPT ![blobName[stages[i].sess]] =
                 StageBlock(@, stages[i].blockId, stages[i].chunk)]
  /\ stages' = [stages EXCEPT ![i].rx = RetryOpSucceeds(@, "staged")]
  /\ UNCHANGED <<now, isRecording, isPaused, recordings, mediaRecorderRef,
                 blockListRef, blockBlobClientRef, recorder, blobName, chunks,
                 finalize, failures, budget, resetAt, registeredBy, probe>>

StageFails(i) ==
  /\ stages[i].rx.phase = "call"
  /\ failures < budget.failures
  /\ failures' = failures + 1
  /\ UNCHANGED budget
  /\ stages' = [stages EXCEPT ![i].rx = RetryOpFails(@)]
  /\ UNCHANGED <<now, isRecording, isPaused, recordings, mediaRecorderRef,
                 blockListRef, blockBlobClientRef, recorder, blobName, chunks,
                 finalize, store, resetAt, registeredBy, probe>>

\* Mutant of StageRetry: the next attempt is not made while paused.
StageRetryUnlessPaused(i) ==
  /\ ~isPaused
  /\ stages[i].rx.phase = "wait"
  /\ stages' = [stages EXCEPT ![i].rx = RetryDelayElapsed(@)]
  /\ UNCHANGED <<now, isRecording, isPaused, recordings, mediaRecorderRef,
                 blockListRef, blockBlobClientRef, recorder, blobName, chunks,
                 finalize, store, failures, budget, resetAt, registeredBy, probe>>

StageRetry(i) ==
  /\ stages[i].rx.phase = "wait"
  /\ stages' = [stages EXCEPT ![i].rx = RetryDelayElapsed(@)]
  /\ UNCHANGED <<now, isRecording, isPaused, recordings, mediaRecorderRef,
                 blockListRef, blockBlobClientRef, recorder, blobName, chunks,
                 finalize, store, failures, budget, resetAt, registeredBy, probe>>

(***************************************************************************)
(* The continuation of onstop: await retry(() =>                           *)
(*   blockBlobClientRef.current.commitBlockList(blockListRef.current))     *)
(***************************************************************************)
\* the commitBlockList call in flight
CommitCall(s) ==
  finalize[s].calls[Len(finalize[s].calls)]

CommitTarget(s) ==
  blobName[CommitCall(s).client]

\* An attempt ended and left retry as rx: the handler goes on once retry
\* has returned or thrown.
CommitAttemptEnds(s, rx) ==
  /\ finalize' = [finalize EXCEPT ![s].rx = rx,
                    ![s].outcome = IF rx.phase = "returned" THEN "committed"
                                   ELSE IF rx.phase = "thrown" THEN "failed"
                                   ELSE @]
  /\ recordings' = RecordingsAfterCommit(recordings, rx,
                     [name |-> blobName[s], url |-> Url(blobName[blockBlobClientRef])])
  /\ registeredBy' = IF recordings' # recordings THEN Append(registeredBy, s)
                     ELSE registeredBy

CommitSucceeds(s) ==
  /\ finalize[s].rx.phase = "call"
  /\ CommitAccepted(store[CommitTarget(s)], CommitCall(s).list)
  /\ store' = [store EXCEPT ![CommitTarget(s)] = CommitBlockList(@, CommitCall(s).list)]
  /\ CommitAttemptEnds(s, RetryOpSucceeds(finalize[s].rx, "committed"))
  /\ UNCHANGED <<now, isRecording, isPaused, mediaRecorderRef, blockListRef,
                 blockBlobClientRef, recorder, blobName, chunks, stages,
                 failures, budget, resetAt, probe>>

\* the service rejects a list naming a block it does not hold
CommitRejected(s) ==
  /\ finalize[s].rx.phase = "call"
  /\ ~CommitAccepted(store[CommitTarget(s)], CommitCall(s).list)
  /\ CommitAttemptEnds(s, RetryOpFails(finalize[s].rx))
  /\ UNCHANGED <<now, isRecording, isPaused, mediaRecorderRef, blockListRef,
                 blockBlobClientRef, recorder, blobName, chunks, stages, store,
                 failures, budget, resetAt, probe>>

\* a transient network failure
CommitFails(s) ==
  /\ finalize[s].rx.phase = "call"
  /\ failures < budget.failures
  /\ failures' = failures + 1
  /\ UNCHANGED budget
  /\ CommitAttemptEnds(s, RetryOpFails(finalize[s].rx))
  /\ UNCHANGED <<now, isRecording, isPaused, mediaRecorderRef, blockListRef,
                 blockBlobClientRef, recorder, blobName, chunks, stages, store,
                 resetAt, probe>>

\* the delay elapsed: the operation is invoked again, reading both refs anew
CommitRetry(s) ==
  /\ finalize[s].rx.phase = "wait"
  /\ finalize' = [finalize EXCEPT
                    ![s].rx = RetryDelayElapsed(@),
                    ![s].calls = Append(@, [client |-> blockBlobClientRef,
                                            list |-> blockListRef])]
  /\ UNCHANGED <<now, isRecording, isPaused, recordings, mediaRecorderRef,
                 blockListRef, blockBlobClientRef, recorder, blobName, chunks,
                 stages, store, failures, budget, resetAt, registeredBy, probe>>

Next ==
  \/ \E s \in Sessions : StartRecording(s)
  \/ \E s \in Sessions : StartGranted(s)
  \/ \E s \in Sessions : StartDenied(s)
  \/ \E s \in Sessions : StartNoEncoding(s)
  \/ \E s \in Sessions : StartNoCredential(s)
  \/ \E s \in Sessions : DataAvailable(s)
  \/ \E s \in Sessions : RecorderStopTask(s)
  \/ PauseRecording
  \/ ResumeRecording
  \/ StopRecording
  \/ \E i \in DOMAIN stages : StageSucceeds(i)
  \/ \E i \in DOMAIN stages : StageFails(i)
  \/ \E i \in DOMAIN stages : StageRetry(i)
  \/ \E s \in Sessions : CommitSucceeds(s)
  \/ \E s \in Sessions : CommitRejected(s)
  \/ \E s \in Sessions : CommitFails(s)
  \/ \E s \in Sessions : CommitRetry(s)

Spec ==
  Init /\ [][Next]_vars

\* The browser runs every task it has queued: the task queued by stop() (the
\* last dataavailable, then the stop event) is not postponed for ever, every
\* stageBlock and commitBlockList promise settles, and every setTimeout of
\* retry fires.
SpecFair ==
  /\ Spec
  /\ \A s \in Sessions : WF_vars(RecorderStopTask(s))
  /\ \A i \in 1 .. MaxChunks :
       /\ WF_vars(i \in DOMAIN stages /\ (StageSucceeds(i) \/ StageFails(i)))
       /\ WF_vars(i \in DOMAIN stages /\ StageRetry(i))
  /\ \A s \in Sessions :
       /\ WF_vars(CommitSucceeds(s) \/ CommitRejected(s) \/ CommitFails(s))
       /\ WF_vars(CommitRetry(s))

(***************************************************************************)
(* retry on its own: one execution, for every attempt budget and delay,    *)
(* of an operation that fails on its first invocations and then succeeds,  *)
(* or that always fails.                                                   *)
(***************************************************************************)
ProbeDelays ==
  {0, 250, DefaultDelay}

ProbeInputs ==
  [always : BOOLEAN, fails : 0 .. MaxProbeRetries + 1,
   retries : -1 .. MaxProbeRetries, delay : ProbeDelays]

InitRetry ==
  /\ now = 0
  /\ isRecording = FALSE
  /\ isPaused = FALSE
  /\ recordings = <<>>
  /\ mediaRecorderRef = 0
  /\ blockListRef = <<>>
  /\ blockBlobClientRef = 0
  /\ recorder = [s \in Sessions |-> "unborn"]
  /\ blobName = [s \in Sessions |-> NoName]
  /\ chunks = <<>>
  /\ stages = <<>>
  /\ finalize = [s \in Sessions |-> NoFinalize]
  /\ store = [n \in Names |-> EmptyBlob]
  /\ failures = 0
  /\ budget = [sessions |-> 0, chunks |-> 0, failures |-> 0,
               sasUrl |-> TRUE, supported |-> SupportedTypes]
  /\ resetAt = 0
  /\ registeredBy = <<>>
  /\ \E in \in ProbeInputs :
       /\ in.always => in.fails = 0
       /\ probe = [always |-> in.always, fails |-> in.fails,
                   rx |-> RetryStart(in.retries, in.delay)]

component ==
  <<now, isRecording, isPaused, recordings, mediaRecorderRef, blockListRef,
    blockBlobClientRef, recorder, blobName, chunks, stages, finalize, store,
    failures, budget, resetAt, registeredBy>>

\* the operation's promise rejects
ProbeOpFails ==
  /\ probe.rx.phase = "call"
  /\ probe.always \/ probe.rx.calls <= probe.fails
  /\ probe' = [probe EXCEPT !.rx = RetryOpFails(@)]
  /\ UNCHANGED component

\* the operation's promise resolves
ProbeOpSucceeds ==
  /\ probe.rx.phase = "call"
  /\ ~probe.always /\ probe.rx.calls > probe.fails
  /\ probe' = [probe EXCEPT !.rx = RetryOpSucceeds(@, "ok")]
  /\ UNCHANGED component

\* the setTimeout promise resolves
ProbeDelayElapsed ==
  /\ probe.rx.phase = "wait"
  /\ probe' = [probe EXCEPT !.rx = RetryDelayElapsed(@)]
  /\ UNCHANGED component

NextRetry ==
  \/ ProbeOpFails
  \/ ProbeOpSucceeds
  \/ ProbeDelayElapsed

SpecRetry ==
  InitRetry /\ [][NextRetry]_vars


(***************************************************************************)
(* Vocabulary of the properties.                                           *)
(***************************************************************************)
Idle ==
  ~isRecording
Recording ==
  isRecording /\ ~isPaused
Paused ==
  isRecording /\ isPaused

\* The identifiers of the chunks with data among log[from+1 .. Len(log)], in
\* the order of the log.
RECURSIVE IdsEmitted(_, _)
IdsEmitted(log, from) ==
  IF from >= Len(log) THEN <<>>
  ELSE (IF log[from + 1].size > 0 THEN <<BlockId(log[from + 1].t)>> ELSE <<>>)
       \o IdsEmitted(log, from + 1)

\* The chunks with data that session s emitted among log[from+1 .. Len(log)],
\* as their numbers in the log, in order.
RECURSIVE DataChunks(_, _, _)
DataChunks(log, from, s) ==
  IF from >= Len(log) THEN <<>>
  ELSE (IF log[from + 1].size > 0 /\ log[from + 1].sess = s
        THEN <<from + 1>> ELSE <<>>)
       \o DataChunks(log, from + 1, s)

\* The chunks that make up the committed object of that name, in order.
CommittedContent(name) ==
  [i \in DOMAIN store[name].committed |-> store[name].committed[i].chunk]

StagesOf(s) ==
  {i \in DOMAIN stages : stages[i].sess = s}

Registered ==
  {registeredBy[i] : i \in DOMAIN registeredBy}

\* The sessions whose recorder was started and has not been stopped.
ActiveSessions ==
  {s \in Sessions : recorder[s] \in {"recording", "paused"}}

\* The SAS URL is not defined, or the browser supports none of the types.
ConfigurationBroken ==
  \/ ~budget.sasUrl
  \/ \A i \in DOMAIN MimeTypes : MimeTypes[i].type \notin budget.supported

\* This step is startRecording of session s ending in its catch clause.
StartFails(s) ==
  recorder[s] = "requested" /\ recorder'[s] = "failed"

\* stopRecording would change neither a recorder nor the lifecycle state.
StopChangesNothing ==
  /\ StopEffect.recorder = recorder
  /\ StopEffect.isRecording = isRecording
  /\ StopEffect.isPaused = isPaused
  /\ StopEffect.blockList = blockListRef

\* The identifiers in a block list.
Listed(list) ==
  {list[k] : k \in DOMAIN list}

\* This step is the last attempt of upload i failing: retry throws into the
\* catch clause of ondataavailable.
StageExhausts(i) ==
  /\ i \in DOMAIN stages
  /\ stages[i].rx.phase = "call"
  /\ stages'[i].rx.phase = "thrown"

\* Upload i is under way: an attempt is in flight or a retry delay is running.
InFlight(i) ==
  stages[i].rx.phase \in {"call", "wait"}

\* Upload i has ended, in success or in failure on all attempts.
Settled(i) ==
  stages[i].rx.phase \in {"returned", "thrown"}

\* This step is a startRecording call getting past its reset of the list.
StartResets ==
  \E s \in Sessions : recorder[s] = "requested" /\ recorder'[s] = "recording"

\* This step is a recorder delivering a chunk.
ChunkDelivered ==
  Len(chunks') = Len(chunks) + 1

\* This step is a run of the stop handler (mediaRecorder.onstop) of session s.
OnStopRuns(s) ==
  recorder[s] = "stopping" /\ recorder'[s] = "inactive"

\* The identifiers given to the chunks with data of session s, in the order
\* the chunks were emitted.
IdsOf(s) ==
  [j \in DOMAIN DataChunks(chunks, 0, s) |->
     BlockId(chunks[DataChunks(chunks, 0, s)[j]].t)]

\* The uploads of session s that retry gave up on.
Exhausted(s) ==
  {i \in StagesOf(s) : stages[i].rx.phase = "thrown"}

(***************************************************************************)
(* C1: for a session that emitted at least one chunk with data and whose   *)
(* stageBlock operations all succeeded, the object finalized by            *)
(* commitBlockList consists of exactly the payloads of its chunks with     *)
(* data, each once, in emission order.                                     *)
(***************************************************************************)
C1_CommittedObjectIsConcatenation ==
  \A s \in Sessions :
    ( /\ finalize[s].outcome = "committed"
      /\ DataChunks(chunks, 0, s) # <<>>
      /\ \A i \in StagesOf(s) : stages[i].rx.phase = "returned" )
    => CommittedContent(blobName[s]) = DataChunks(chunks, 0, s)

(***************************************************************************)
(* C2: an entry is added to recordings for a session only after a          *)
(* commitBlockList call of that session's stop handler succeeded; a        *)
(* session whose commit failed on all attempts, or was skipped because the *)
(* sequence was empty, has no entry.                                       *)
(***************************************************************************)
C2_RegisteredOnlyAfterCommit ==
  /\ Len(registeredBy) = Len(recordings)
  /\ \A s \in Registered :
       /\ finalize[s].rx.phase = "returned"
       /\ finalize[s].rx.result = "committed"
       /\ finalize[s].rx.calls >= 1
       /\ store[blobName[finalize[s].calls[Len(finalize[s].calls)].client]].exists
  /\ \A s \in Sessions :
       finalize[s].outcome \in {"failed", "skipped", "none", "running"}
         => s \notin Registered

C2_Witness_CommitExhausted ==
  \E s \in Sessions :
    /\ finalize[s].outcome = "failed"
    /\ finalize[s].rx.calls = DefaultRetries
    /\ recordings = <<>>

(***************************************************************************)
(* C3: a session whose block list is empty when its stop handler runs      *)
(* makes no commitBlockList call, ends as skipped (the warning), and gets  *)
(* no entry in recordings.                                                 *)
(***************************************************************************)
C3_EmptyListSkipsCommit ==
  \A s \in Sessions :
    (finalize[s].ran /\ Len(finalize[s].listAtStop) = 0)
      => /\ finalize[s].calls = <<>>
         /\ finalize[s].rx.calls = 0
         /\ finalize[s].outcome = "skipped"
         /\ s \notin Registered

C3_Witness_OnlyEmptyChunks ==
  \E s \in Sessions :
    /\ finalize[s].outcome = "skipped"
    /\ Len(chunks) >= 2
    /\ \A k \in DOMAIN chunks : chunks[k].sess = s /\ chunks[k].size = 0

(***************************************************************************)
(* C4: the block list holds the identifiers of the chunks with data in     *)
(* the order the chunks were emitted, and every commitBlockList call       *)
(* passes them in that order, whatever the order the uploads complete in.  *)
(***************************************************************************)
C4_ListInEmissionOrder ==
  blockListRef = IdsEmitted(chunks, resetAt)

C4_CommitPassesTheList ==
  \A s \in Sessions :
    Len(finalize'[s].calls) > Len(finalize[s].calls)
      => finalize'[s].calls[Len(finalize'[s].calls)].list
           = IdsEmitted(chunks', resetAt')

C4_OrderFixedAtEmission ==
  [](C4_ListInEmissionOrder) /\ [][C4_CommitPassesTheList]_vars

\* The second of two uploads completed while the first is still under way,
\* and the commit call lists the first one's identifier first.
C4_Witness_OutOfOrderCompletion ==
  \E s \in Sessions : \E i, j \in StagesOf(s) :
    /\ i < j
    /\ stages[i].blockId # stages[j].blockId
    /\ stages[i].rx.phase \in {"call", "wait"}
    /\ stages[j].rx.phase = "returned"
    /\ finalize[s].calls # <<>>
    /\ finalize[s].calls[1].list = <<stages[i].blockId, stages[j].blockId>>

(***************************************************************************)
(* C5: within one session no block identifier is generated twice, for      *)
(* every non-decreasing sequence of clock readings.                        *)
(***************************************************************************)
C5_BlockIdsDistinct ==
  \A i, j \in DOMAIN stages :
    (i # j /\ stages[i].sess = stages[j].sess)
      => stages[i].blockId # stages[j].blockId

(***************************************************************************)
(* C6: for an operation that fails k times and then succeeds, with         *)
(* retries > k, retry returns the operation's result after exactly k+1     *)
(* invocations and k delays of the given length, and never throws.         *)
(***************************************************************************)
C6_SucceedsAfterKFailures ==
  (~probe.always /\ probe.rx.retries > probe.fails)
    => /\ probe.rx.phase \in {"call", "wait", "returned"}
       /\ probe.rx.calls <= probe.fails + 1
       /\ Len(probe.rx.waits) <= probe.fails
       /\ \A i \in DOMAIN probe.rx.waits : probe.rx.waits[i] = probe.rx.delay
       /\ probe.rx.phase = "returned"
            => /\ probe.rx.result = "ok"
               /\ probe.rx.calls = probe.fails + 1
               /\ Len(probe.rx.waits) = probe.fails

C6_Witness_ThirdAttemptSucceeds ==
  /\ ~probe.always
  /\ probe.fails = 2
  /\ probe.rx.retries = 3
  /\ probe.rx.phase = "returned"
  /\ probe.rx.calls = 3

(***************************************************************************)
(* C7: for an operation that always fails and retries >= 1, retry invokes  *)
(* it exactly retries times, waits only between attempts, and throws the   *)
(* failure of the last invocation.                                         *)
(***************************************************************************)
C7_ThrowsLastFailure ==
  (probe.always /\ probe.rx.retries >= 1)
    => /\ probe.rx.phase \in {"call", "wait", "thrown"}
       /\ probe.rx.calls <= probe.rx.retries
       /\ Len(probe.rx.waits) <= probe.rx.retries - 1
       /\ \A i \in DOMAIN probe.rx.waits : probe.rx.waits[i] = probe.rx.delay
       /\ probe.rx.phase = "thrown"
            => /\ probe.rx.calls = probe.rx.retries
               /\ Len(probe.rx.waits) = probe.rx.retries - 1
               /\ probe.rx.error = probe.rx.retries

C7_Witness_ThreeAttemptsThenThrow ==
  /\ probe.always
  /\ probe.rx.retries = 3
  /\ probe.rx.phase = "thrown"
  /\ probe.rx.calls = 3

(***************************************************************************)
(* C8: while the component is Paused, no chunk is given an identifier or   *)
(* starts a stageBlock operation.                                          *)
(***************************************************************************)
C8_NothingStagedWhilePaused ==
  [][(Paused /\ Paused')
       => (blockListRef' = blockListRef /\ Len(stages') = Len(stages))]_vars

(***************************************************************************)
(* C9: pause while Idle or Paused, and resume while Idle or Recording,     *)
(* change neither the lifecycle state nor the block list nor any recorder, *)
(* and forward no call to a recorder.                                      *)
(***************************************************************************)
C9_IllegalTransitionsIgnored ==
  /\ (Idle \/ Paused)
       => /\ PauseEffect.recorder = recorder
          /\ PauseEffect.isPaused = isPaused
          /\ PauseEffect.blockList = blockListRef
          /\ PauseEffect.forwarded.op = "none"
  /\ (Idle \/ Recording)
       => /\ ResumeEffect.recorder = recorder
          /\ ResumeEffect.isPaused = isPaused
          /\ ResumeEffect.blockList = blockListRef
          /\ ResumeEffect.forwarded.op = "none"

\* Stopped, with the stopped recorder still in mediaRecorderRef and a block
\* list that is not empty: only the isRecording test keeps pause out.
C9_Witness_PauseAfterStop ==
  /\ Idle
  /\ mediaRecorderRef # 0
  /\ recorder[mediaRecorderRef] = "inactive"
  /\ blockListRef # <<>>
  /\ PauseEffect.forwarded.op = "none"
  /\ ResumeEffect.forwarded.op = "none"

(***************************************************************************)
(* C10: a chunk of size zero appends nothing to the block list, reads no   *)
(* clock and starts no stageBlock operation: the list holds one identifier *)
(* per chunk with data, and one upload is started per chunk with data.     *)
(***************************************************************************)
C10_OneBlockPerDataChunk ==
  /\ Len(blockListRef) = Len(IdsEmitted(chunks, resetAt))
  /\ Len(stages) = Len(IdsEmitted(chunks, 0))
  /\ \A i \in DOMAIN stages : chunks[stages[i].chunk].size > 0

C10_EmptyChunkChangesNothing ==
  (Len(chunks') = Len(chunks) + 1 /\ chunks'[Len(chunks')].size = 0)
    => (blockListRef' = blockListRef /\ stages' = stages /\ now' = now)

C10_EmptyChunkDropped ==
  [](C10_OneBlockPerDataChunk) /\ [][C10_EmptyChunkChangesNothing]_vars

\* chunks of 500, 0 and 500 bytes received in Recording: two identifiers,
\* the first chunk's and then the third's, and two uploads
C10_Witness_DataEmptyData ==
  /\ Recording
  /\ Len(chunks) = 3
  /\ chunks[1].size = 500 /\ chunks[2].size = 0 /\ chunks[3].size = 500
  /\ chunks[1].t # chunks[3].t
  /\ blockListRef = <<BlockId(chunks[1].t), BlockId(chunks[3].t)>>
  /\ Len(stages) = 2
  /\ stages[1].chunk = 1 /\ stages[2].chunk = 3

(***************************************************************************)
(* C11: when stageBlock failed on all attempts for a block of a session,   *)
(* the block's identifier is still in the sequence: the sequence the stop  *)
(* handler finds holds every identifier of the session in emission order,  *)
(* the failed one included, and the commit call passes that sequence.      *)
(***************************************************************************)
C11_DanglingIdCommitted ==
  \A s \in Sessions :
    (finalize[s].ran /\ Exhausted(s) # {})
      => /\ finalize[s].listAtStop = IdsOf(s)
         /\ \A i \in Exhausted(s) :
              \E k \in DOMAIN finalize[s].listAtStop :
                finalize[s].listAtStop[k] = stages[i].blockId
         /\ finalize[s].calls # <<>>
         /\ finalize[s].calls[1].list = finalize[s].listAtStop

(***************************************************************************)
(* C12: the stop handler of a session runs exactly once: only after stop() *)
(* was called on the session's recorder, once it was called, and never a   *)
(* second time, whatever is called afterwards.                             *)
(***************************************************************************)
C12_NotBeforeStopNotTwice ==
  \A s \in Sessions :
    /\ OnStopRuns(s) => (~finalize[s].ran /\ finalize'[s].ran)
    /\ (finalize'[s].ran /\ ~finalize[s].ran) => OnStopRuns(s)
    /\ finalize[s].ran
         => /\ finalize'[s].ran
            /\ finalize'[s].listAtStop = finalize[s].listAtStop
            /\ recorder'[s] = "inactive"

C12_FinalizeExactlyOnce ==
  /\ [][C12_NotBeforeStopNotTwice]_vars
  /\ \A s \in Sessions : (recorder[s] = "stopping") ~> finalize[s].ran

\* The stop handler has run, and a further stopRecording call is forwarded
\* to the same recorder.
C12_Witness_StopAfterFinalize ==
  \E s \in Sessions :
    /\ finalize[s].ran
    /\ finalize[s].outcome = "committed"
    /\ mediaRecorderRef = s
    /\ StopEffect.forwarded = [op |-> "stop", to |-> s]

(***************************************************************************)
(* C13: after any sequence of start, pause, resume and stop calls that the *)
(* component accepts, at most one session is active: at most one recorder  *)
(* was started and has not been stopped.                                   *)
(***************************************************************************)
C13_AtMostOneActiveSession ==
  Cardinality(ActiveSessions) <= 1

(***************************************************************************)
(* C14: when startRecording hits a configuration failure (microphone not   *)
(* acquired, no supported type, SAS URL not defined) no session is         *)
(* started: the call ends at once and for good, the lifecycle state is     *)
(* what it was (Idle stays Idle), the recorder is never started, nothing   *)
(* is staged or finalized for it, and a stop call that follows changes     *)
(* nothing.                                                                *)
(***************************************************************************)
C14_FailedStartLeavesNothing ==
  /\ \A s \in Sessions :
       recorder[s] = "failed"
         => /\ DataChunks(chunks, 0, s) = <<>>
            /\ \A k \in DOMAIN chunks : chunks[k].sess # s
            /\ StagesOf(s) = {}
            /\ finalize[s] = NoFinalize
            /\ blobName[s] = NoName
            /\ blockBlobClientRef # s
  /\ ConfigurationBroken
       => /\ Idle /\ ~isPaused
          /\ ActiveSessions = {}
          /\ \A s \in Sessions : recorder[s] \in {"unborn", "requested", "failed"}
          /\ chunks = <<>> /\ stages = <<>> /\ blockListRef = <<>>
          /\ \A n \in Names : store[n] = EmptyBlob
          /\ StopChangesNothing

C14_FailedStartStep ==
  \A s \in Sessions :
    /\ StartFails(s)
         => /\ UNCHANGED <<isRecording, isPaused, blockListRef, blockBlobClientRef,
                           chunks, stages, finalize, store, recordings, failures>>
            /\ \A r \in Sessions : r # s => recorder'[r] = recorder[r]
            /\ Idle => (Idle /\ StopChangesNothing)'
    /\ recorder[s] = "failed" => recorder'[s] = "failed"

C14_ConfigurationFailureStartsNothing ==
  [](C14_FailedStartLeavesNothing) /\ [][C14_FailedStartStep]_vars

\* The SAS URL is not defined: the recorder that was built is in
\* mediaRecorderRef, so a stop call is forwarded to it, and does nothing.
C14_Witness_StopAfterNoCredential ==
  \E s \in Sessions :
    /\ recorder[s] = "failed"
    /\ mediaRecorderRef = s
    /\ Idle
    /\ StopEffect.forwarded = [op |-> "stop", to |-> s]
    /\ \E r \in Sessions : r # s /\ recorder[r] = "failed"

(***************************************************************************)
(* C15: the identifier of a chunk with data is appended to the sequence    *)
(* before the first stageBlock attempt for the chunk begins: an upload     *)
(* that begins finds its identifier at the end of the sequence, so in      *)
(* every state every upload, in flight, succeeded or failed, of a session  *)
(* that has not been finalized has its identifier in the sequence.         *)
(***************************************************************************)
C15_UploadBeginsListed ==
  Len(stages') > Len(stages)
    => /\ Len(stages') = Len(stages) + 1
       /\ blockListRef' = Append(blockListRef, stages'[Len(stages')].blockId)
       /\ stages'[Len(stages')].rx.calls = 1

C15_UploadsAreListed ==
  \A i \in DOMAIN stages :
    ~finalize[stages[i].sess].ran => stages[i].blockId \in Listed(blockListRef)

C15_IdListedBeforeUpload ==
  [](C15_UploadsAreListed) /\ [][C15_UploadBeginsListed]_vars

(***************************************************************************)
(* C16: an upload failing on all attempts does not abort the session: the  *)
(* failure stays in the chunk handler (the step changes nothing but the    *)
(* upload's own progress, so the lifecycle state, the recorders and what   *)
(* pause, resume and stop would do are as before), every chunk with data   *)
(* is still given an identifier and an upload, and a stopped recorder      *)
(* still gets its stop handler run.                                        *)
(***************************************************************************)
C16_ExhaustionChangesNothingElse ==
  \A i \in DOMAIN stages :
    StageExhausts(i)
      => /\ UNCHANGED <<isRecording, isPaused, recorder, mediaRecorderRef,
                        blockListRef, blockBlobClientRef, chunks, finalize,
                        recordings, store, blobName>>
         /\ Len(stages') = Len(stages)
         /\ \A j \in DOMAIN stages : j # i => stages'[j] = stages[j]
         /\ StopEffect' = StopEffect
         /\ PauseEffect' = PauseEffect
         /\ ResumeEffect' = ResumeEffect

C16_ChunksStillStaged ==
  /\ Len(stages) = Len(IdsEmitted(chunks, 0))
  /\ Len(blockListRef) = Len(IdsEmitted(chunks, resetAt))
  /\ \A s \in Sessions :
       (Exhausted(s) # {} /\ mediaRecorderRef = s
          /\ recorder[s] \in {"recording", "paused"})
         => /\ isRecording
            /\ StopEffect.recorder[s] = "stopping"

C16_FailureDoesNotAbort ==
  /\ [](C16_ChunksStillStaged)
  /\ [][C16_ExhaustionChangesNothingElse]_vars
  /\ \A s \in Sessions :
       (Exhausted(s) # {} /\ recorder[s] = "stopping") ~> finalize[s].ran

\* An upload failed on all attempts; a later chunk of the session is in its
\* first attempt, and the session went on to be stopped and finalized.
C16_Witness_StagedAndFinalizedAfterFailure ==
  \E s \in Sessions : \E i \in Exhausted(s) : \E j \in StagesOf(s) :
    /\ i < j
    /\ stages[j].rx.phase = "call" /\ stages[j].rx.calls = 1
    /\ finalize[s].ran
    /\ finalize[s].calls # <<>>
    /\ Len(finalize[s].listAtStop) = 2

(***************************************************************************)
(* C17: pause does not cancel work in flight: pauseRecording leaves every  *)
(* upload and the sequence as they are, while the component is Paused an   *)
(* upload under way can take its next step (the attempt can end, the       *)
(* delay can elapse and the next attempt be made) and no identifier leaves *)
(* the sequence, and every upload ends in success or in failure on all     *)
(* attempts.                                                               *)
(***************************************************************************)
C17_PauseLeavesUploads ==
  /\ (~isPaused /\ isPaused') => (stages' = stages /\ blockListRef' = blockListRef)
  /\ (Paused /\ Paused')
       => /\ Listed(blockListRef) \subseteq Listed(blockListRef')
          /\ \A i \in DOMAIN stages :
               /\ stages'[i].blockId = stages[i].blockId
               /\ stages'[i].rx.calls >= stages[i].rx.calls
               /\ Settled(i) => stages'[i] = stages[i]

C17_UploadsCanProceedWhilePaused ==
  Paused =>
    \A i \in DOMAIN stages :
      /\ stages[i].rx.phase = "call" => ENABLED StageSucceeds(i)
      /\ stages[i].rx.phase = "wait" => ENABLED StageRetry(i)

C17_PauseIsNotCancellation ==
  /\ [](C17_UploadsCanProceedWhilePaused)
  /\ [][C17_PauseLeavesUploads]_vars
  /\ \A i \in 1 .. MaxChunks :
       (i \in DOMAIN stages /\ InFlight(i)) ~> (i \in DOMAIN stages /\ Settled(i))

\* Paused after a single start, so that every upload began before the pause:
\* one has been retried and is still under way, one has succeeded, and both
\* identifiers are in the sequence.
C17_Witness_RetryingWhilePaused ==
  /\ Paused
  /\ budget.sessions = 1
  /\ recorder[mediaRecorderRef] = "paused"
  /\ \E i, j \in DOMAIN stages :
       /\ stages[i].rx.phase = "call" /\ stages[i].rx.calls = 2
       /\ stages[j].rx.phase = "returned"
       /\ stages[i].blockId # stages[j].blockId
       /\ {stages[i].blockId, stages[j].blockId} \subseteq Listed(blockListRef)

(***************************************************************************)
(* C18: stop is accepted in Recording and in Paused alike: stopRecording   *)
(* stops the recorder and makes the state Stopped (isRecording and         *)
(* isPaused false), and the stop handler then runs with the whole sequence *)
(* the session accumulated, the blocks from before a pause included.       *)
(***************************************************************************)
C18_StopAccepted ==
  (Recording \/ Paused)
    => /\ StopEffect.forwarded = [op |-> "stop", to |-> mediaRecorderRef]
       /\ recorder[mediaRecorderRef] \in {"recording", "paused"}
       /\ StopEffect.recorder[mediaRecorderRef] = "stopping"
       /\ ~StopEffect.isRecording /\ ~StopEffect.isPaused
       /\ StopEffect.blockList = blockListRef

C18_FinalizeGetsWholeSequence ==
  \A s \in Sessions :
    finalize[s].ran
      => /\ finalize[s].listAtStop = IdsOf(s)
         /\ finalize[s].calls # <<>> => finalize[s].calls[1].list = IdsOf(s)

C18_StopFromRecordingOrPaused ==
  /\ [](C18_StopAccepted /\ C18_FinalizeGetsWholeSequence)
  /\ \A s \in Sessions : (recorder[s] = "stopping") ~> finalize[s].ran

(***************************************************************************)
(* C19: the sequence changes only by an append at its end, made when a     *)
(* chunk is delivered, or by a reset to empty, made by start: no step of   *)
(* pause, resume, stop, of an upload or of a commit removes, reorders or   *)
(* replaces an element.                                                    *)
(***************************************************************************)
C19_AppendOrReset ==
  /\ \/ blockListRef' = blockListRef
     \/ /\ ChunkDelivered
        /\ Len(blockListRef') = Len(blockListRef) + 1
        /\ SubSeq(blockListRef', 1, Len(blockListRef)) = blockListRef
     \/ StartResets /\ blockListRef' = <<>>
  /\ (isPaused' # isPaused /\ ~StartResets) => blockListRef' = blockListRef
  /\ (isRecording /\ ~isRecording') => blockListRef' = blockListRef
  /\ (stages' # stages /\ ~ChunkDelivered) => blockListRef' = blockListRef
  /\ (finalize' # finalize /\ ~ChunkDelivered) => blockListRef' = blockListRef

C19_SequenceAppendOnly ==
  [][C19_AppendOrReset]_vars

\* Two blocks, a stop, a commit attempt that failed and one that succeeded:
\* the list is still the two identifiers.
C19_Witness_ListKeptAfterCommit ==
  \E s \in Sessions :
    /\ mediaRecorderRef = s
    /\ finalize[s].outcome = "committed"
    /\ finalize[s].rx.calls >= 2
    /\ Len(blockListRef) = 2
    /\ blockListRef = finalize[s].listAtStop
    /\ Idle

(***************************************************************************)
(* C20: the commit step reads the sequence only after the session's        *)
(* recorder has stopped, and every commit attempt of a session, the first  *)
(* and each retry, passes the sequence the session had accumulated when    *)
(* its stop handler ran, whatever is appended or reset in between.         *)
(***************************************************************************)
C20_EveryAttemptCommitsSameList ==
  \A s \in Sessions :
    /\ finalize[s].calls # <<>> => (finalize[s].ran /\ recorder[s] = "inactive")
    /\ \A k \in DOMAIN finalize[s].calls :
         finalize[s].calls[k].list = finalize[s].listAtStop

(***************************************************************************)
(* C21: stop has no drain barrier: the stop handler runs as soon as the    *)
(* recorder's stop task is run, whatever uploads are under way, and with a *)
(* sequence that is not empty its first commitBlockList call is issued in  *)
(* that same step, so a commit call can be in flight while the upload of   *)
(* the last chunk, whose identifier the call lists, has not completed.     *)
(***************************************************************************)
C21_StopHandlerNeverWaits ==
  \A s \in Sessions : recorder[s] = "stopping" => ENABLED RecorderStopTask(s)

C21_CommitIssuedAtOnce ==
  \A s \in Sessions :
    (OnStopRuns(s) /\ blockListRef' # <<>>)
      => /\ finalize'[s].rx.phase = "call"
         /\ finalize'[s].rx.calls = 1
         /\ finalize'[s].calls = <<[client |-> blockBlobClientRef',
                                     list |-> blockListRef']>>
         /\ \A i \in DOMAIN stages : stages'[i] = stages[i]

C21_NoDrainBarrier ==
  [](C21_StopHandlerNeverWaits) /\ [][C21_CommitIssuedAtOnce]_vars

\* The first commit call of a session is in flight and lists the identifier
\* of the session's last chunk, whose upload is still in its first attempt
\* and has staged nothing yet.
C21_Witness_CommitRacesLastUpload ==
  \E s \in Sessions : \E i \in StagesOf(s) :
    /\ budget.sessions = 1
    /\ finalize[s].rx.phase = "call" /\ finalize[s].rx.calls = 1
    /\ stages[i].chunk = Len(chunks) - 1
    /\ stages[i].rx.phase = "call" /\ stages[i].rx.calls = 1
    /\ stages[i].blockId = CommitCall(s).list[Len(CommitCall(s).list)]
    /\ stages[i].blockId \notin BlockIdsOf(store[blobName[s]])
    /\ ~CommitAccepted(store[CommitTarget(s)], CommitCall(s).list)

(***************************************************************************)
(* C22: stop invoked when no session is active (Idle before any start, or  *)
(* after an earlier session was stopped) is a no-op: no call is forwarded  *)
(* to a recorder, neither the lifecycle state nor the sequence nor any     *)
(* recorder changes, and so no stop handler is triggered.                  *)
(***************************************************************************)
C22_StopWhenIdleIsNoOp ==
  Idle => /\ StopChangesNothing
          /\ StopEffect.forwarded.op = "none"


(***************************************************************************)
(* C23: no execution of retry invokes its operation more than retries      *)
(* times, and, every network call returning and every delay elapsing, a    *)
(* session whose recorder was stopped reaches one outcome of its stop      *)
(* handler and keeps it: the commit skipped because the list was empty,    *)
(* the commit succeeded, or the commit failed on the last of its retries   *)
(* attempts.                                                               *)
(***************************************************************************)
FinalizeOutcomes ==
  {"skipped", "committed", "failed"}

\* The stop handler of session s has ended, and how it ended agrees with
\* what it did.
Finalized(s) ==
  /\ finalize[s].outcome \in FinalizeOutcomes
  /\ finalize[s].outcome = "skipped" <=>
       (finalize[s].ran /\ NoBlocks(finalize[s].listAtStop))
  /\ finalize[s].outcome = "committed" <=> finalize[s].rx.phase = "returned"
  /\ finalize[s].outcome = "failed" <=>
       (finalize[s].rx.phase = "thrown" /\ finalize[s].rx.calls = DefaultRetries)

C23_CallsBounded ==
  /\ \A i \in DOMAIN stages : stages[i].rx.calls <= stages[i].rx.retries
  /\ \A s \in Sessions :
       /\ finalize[s].rx.calls <= DefaultRetries
       /\ Len(finalize[s].calls) = finalize[s].rx.calls

C23_OutcomeKept ==
  \A s \in Sessions :
    finalize[s].outcome \in FinalizeOutcomes
      => finalize'[s].outcome = finalize[s].outcome

C23_RetryTerminatesAndSessionFinalizes ==
  /\ [](C23_CallsBounded)
  /\ [][C23_OutcomeKept]_vars
  /\ \A s \in Sessions : (recorder[s] = "stopping") ~> Finalized(s)
  /\ \A s \in Sessions : [](Finalized(s) => [](Finalized(s)))

\* Reached: a stop handler whose commit failed on each of its three attempts.
C23_Witness_CommitExhausted ==
  \E s \in Sessions :
    /\ finalize[s].outcome = "failed"
    /\ finalize[s].rx.calls = DefaultRetries
    /\ Len(finalize[s].calls) = DefaultRetries

(***************************************************************************)
(* C24: every stageBlock operation and the commitBlockList operation has   *)
(* its own attempt budget.  Each execution of retry starts at attempt 1    *)
(* with 3 attempts, counts only its own invocations, goes on to a next     *)
(* attempt after each failure but its third, and gives up only after three *)
(* invocations of its own; a step in one execution changes no other.       *)
(***************************************************************************)
\* The executions of retry begun so far: the uploads and the commits.
RetryExecutions ==
  [kind : {"stage"}, of : DOMAIN stages]
    \cup [kind : {"commit"}, of : {s \in Sessions : finalize[s].rx # NoRetry}]

RetryOf(x, stgs, fin) ==
  IF x.kind = "stage" THEN stgs[x.of].rx ELSE fin[x.of].rx

C24_OwnBudget ==
  \A x \in RetryExecutions :
    LET rx == RetryOf(x, stages, finalize)
    IN /\ rx.retries = DefaultRetries
       /\ rx.calls = rx.attempt
       /\ rx.phase = "thrown" => rx.calls = DefaultRetries
       /\ rx.phase = "wait" => rx.calls < DefaultRetries
       /\ Len(rx.waits) \in {rx.calls - 1, rx.calls}

C24_OneExecutionPerStep ==
  /\ \A x, y \in RetryExecutions :
       ( /\ RetryOf(x, stages', finalize') # RetryOf(x, stages, finalize)
         /\ RetryOf(y, stages', finalize') # RetryOf(y, stages, finalize) )
       => x = y
  /\ \A i \in DOMAIN stages' \ DOMAIN stages :
       stages'[i].rx = RetryStart(DefaultRetries, DefaultDelay)
  /\ \A s \in Sessions :
       (finalize[s].rx = NoRetry /\ finalize'[s].rx # NoRetry)
         => finalize'[s].rx = RetryStart(DefaultRetries, DefaultDelay)

C24_IndependentRetryBudgets ==
  /\ [](C24_OwnBudget)
  /\ [][C24_OneExecutionPerStep]_vars

\* Reached: an upload that failed three times, another upload of the same
\* session in its third attempt, and the commit of that session in its
\* third attempt.
C24_Witness_ThreeTimesThree ==
  \E s \in Sessions : \E i, j \in StagesOf(s) :
    /\ i # j
    /\ stages[i].rx.phase = "thrown"
    /\ stages[j].rx.calls = DefaultRetries
    /\ finalize[s].rx.calls = DefaultRetries

(***************************************************************************)
(* C25: a start leaves the block list empty, and every identifier passed   *)
(* in a commitBlockList call of a session's stop handler is the identifier *)
(* of a chunk that the recorder of that same session emitted.              *)
(***************************************************************************)
C25_FreshList ==
  StartResets => blockListRef' = <<>>

C25_CallsHoldOwnIds ==
  \A s \in Sessions : \A k \in DOMAIN finalize[s].calls :
    Listed(finalize[s].calls[k].list) \subseteq Listed(IdsOf(s))

C25_CommitHoldsOnlyOwnIds ==
  /\ [](C25_CallsHoldOwnIds)
  /\ [][C25_FreshList]_vars

(***************************************************************************)
(* C26: every commitBlockList call of a session's stop handler is sent to  *)
(* the remote object to which that session's chunk handler stages its      *)
(* blocks: the object that blockBlobClientRef names when the attempt is     *)
(* made is the object of the session's own blockBlobClient.                *)
(***************************************************************************)
C26_CommitGoesToOwnObject ==
  \A s \in Sessions : \A k \in DOMAIN finalize[s].calls :
    blobName[finalize[s].calls[k].client] = blobName[s]

(***************************************************************************)
(* C27: every entry of recordings pairs the name and the url of one remote *)
(* object: the name is the blob name of the session whose stop handler     *)
(* added the entry, and the url is the url of the blob of that name.       *)
(***************************************************************************)
C27_EntryNamesOneObject ==
  \A i \in DOMAIN recordings :
    /\ recordings[i].name = blobName[registeredBy[i]]
    /\ recordings[i].url = Url(recordings[i].name)

(***************************************************************************)
(* C28: for every attempt budget, zero and negative ones included, retry   *)
(* invokes its operation at least once before it ends, and it resolves     *)
(* only with the result of an invocation that succeeded.                   *)
(***************************************************************************)
C28_ResolvesOnlyAfterSuccess ==
  /\ probe.rx.phase \in {"returned", "thrown"} => probe.rx.calls >= 1
  /\ probe.rx.phase = "returned"
       => /\ probe.rx.result = "ok"
          /\ ~probe.always
          /\ probe.rx.calls = probe.fails + 1

=============================================================================
